---- MODULE Spec2Model ----
(***************************************************************************)
(* RegFoxAPI (regfox.py): a thin client over the WebConnex REST API.       *)
(*                                                                         *)
(* The state is what the Python program keeps: the class-level headers     *)
(* dict (one dict object shared by every instance), each instance's        *)
(* last_request / last_request_json attributes, plus the upstream's        *)
(* check-in register.  One action per method of the class; every action    *)
(* is the whole call, from the caller's invocation to its return or raise. *)
(* `call' records the most recent call: who made it, with which arguments, *)
(* the requests handed to requests.request during it, and how it ended.    *)
(***************************************************************************)
EXTENDS Integers, Sequences, FiniteSets, TLC

VARIABLES headers, alive, loaded, last_request, last_request_json,
          checkedIn, call

vars == <<headers, alive, loaded, last_request, last_request_json,
          checkedIn, call>>

\* ------------------------------------------------------------------------
\* Bounds
\* ------------------------------------------------------------------------

\* Entity ids (registrants, orders, forms, ...) are drawn from 1..MaxId.
MaxId == 2

Ids == 1..MaxId

\* The instances of RegFoxAPI: the module's own `regfox', and one more that
\* an importing program constructs.
Clients == {"regfox", "other"}

\* regfox = RegFoxAPI(), the only instance the module itself constructs.
ModuleInstance == {"regfox"}

\* ------------------------------------------------------------------------
\* Python values
\* ------------------------------------------------------------------------

PyNone == [t |-> "NoneType"]

PyInt(n) == [t |-> "int", i |-> n]

PyStr(s) == [t |-> "str", s |-> s]

PyBool(b) == [t |-> "bool", b |-> b]

\* A dict is its set of (key, value) items.
PyDict(items) == [t |-> "dict", items |-> items]

HasKey(d, k) == d.t = "dict" /\ \E p \in d.items : p[1] = k

GetItem(d, k) == (CHOOSE p \in d.items : p[1] = k)[2]

DictKeys(d) == {p[1] : p \in d.items}

\* str(v), as an f-string formats a value.
Format(v) ==
    CASE v.t = "int" -> ToString(v.i)
      [] v.t = "str" -> v.s
      [] v.t = "bool" -> IF v.b THEN "True" ELSE "False"
      [] v.t = "NoneType" -> "None"

\* ------------------------------------------------------------------------
\* Texts and json.load / json.loads
\* ------------------------------------------------------------------------

KeyA == "key-A"

KeyB == " key-B "

ConfigTextA == "{\"api_key\": \"key-A\"}"

ConfigTextB == "{\"api_key\": \" key-B \"}"

ConfigTextNoKey == "{\"name\": \"regfox\"}"

ConfigTextMalformed == "{\"api_key\": "

ListText == "{\"responseCode\":200,\"data\":[],\"totalResults\":0}"

CheckedInText == "{\"id\":1230469,\"date\":\"2020-01-31T09:04:56.538973464Z\"}"

ConflictText ==
    "{\"responseCode\":500,\"error\":{\"code\":8500,\"description\":\"all ready checked in\"}}"

BadGatewayText == "<html>502 Bad Gateway</html>"

\* json.loads on the texts above: the parsed value, or JSONDecodeError.
json_loads(text) ==
    CASE text = ConfigTextA ->
           [ok |-> TRUE, value |-> PyDict({<<"api_key", PyStr(KeyA)>>})]
      [] text = ConfigTextB ->
           [ok |-> TRUE, value |-> PyDict({<<"api_key", PyStr(KeyB)>>})]
      [] text = ConfigTextNoKey ->
           [ok |-> TRUE, value |-> PyDict({<<"name", PyStr("regfox")>>})]
      [] text = ListText ->
           [ok |-> TRUE,
            value |-> PyDict({<<"responseCode", PyInt(200)>>,
                              <<"data", [t |-> "list", elems |-> <<>>]>>,
                              <<"totalResults", PyInt(0)>>})]
      [] text = CheckedInText ->
           [ok |-> TRUE,
            value |-> PyDict({<<"id", PyInt(1230469)>>,
                              <<"date", PyStr("2020-01-31T09:04:56.538973464Z")>>})]
      [] text = ConflictText ->
           [ok |-> TRUE,
            value |-> PyDict({<<"responseCode", PyInt(500)>>,
                              <<"error",
                                PyDict({<<"code", PyInt(8500)>>,
                                        <<"description",
                                          PyStr("all ready checked in")>>})>>})]
      [] OTHER -> [ok |-> FALSE, value |-> PyNone]

\* ------------------------------------------------------------------------
\* Class attributes
\* ------------------------------------------------------------------------

url_base == "https://api.webconnex.com/v2/public"

\* The table with the coupon lookups' entries exchanged.
endpoints_coupons_swapped ==
    [ping |-> "/ping",
     search_orders |-> "/search/orders",
     search_registrants |-> "/search/registrants",
     registrant_checkin |-> "/registrant/check-in",
     registrant_checkout |-> "/registrant/check-out",
     search_transactions |-> "/search/transactions",
     search_customers |-> "/search/customers",
     list_global_coupons |-> "/coupons/global",
     list_form_coupons |-> "/coupons",
     coupons |-> "/coupons/forms",
     forms |-> "/forms"]

endpoints ==
    [ping |-> "/ping",
     search_orders |-> "/search/orders",
     search_registrants |-> "/search/registrants",
     registrant_checkin |-> "/registrant/check-in",
     registrant_checkout |-> "/registrant/check-out",
     search_transactions |-> "/search/transactions",
     search_customers |-> "/search/customers",
     list_global_coupons |-> "/coupons/global",
     list_form_coupons |-> "/coupons/forms",
     coupons |-> "/coupons",
     forms |-> "/forms"]

\* The configuration sources default_api_path may name: no file, or a file
\* with one of the config texts.
Sources ==
    {[exists |-> FALSE, text |-> ""]} \cup
    {[exists |-> TRUE, text |-> x] :
        x \in {ConfigTextA, ConfigTextB, ConfigTextNoKey, ConfigTextMalformed}}

\* ------------------------------------------------------------------------
\* Outcomes of a method: the requests it issued, how it ended, and the
\* values its instance attributes have afterwards.
\* ------------------------------------------------------------------------

Return(v) == [kind |-> "return", value |-> v, error |-> ""]

Raise(e) == [kind |-> "raise", value |-> PyNone, error |-> e]

\* No keyword arguments: **kwargs is the empty dict.
NoKwargs == PyDict({})

Kw(k, v) == PyDict({<<k, v>>})

\* ------------------------------------------------------------------------
\* Initialization
\* ------------------------------------------------------------------------

\* str.strip, on the keys of the config texts.
Strip(v) == IF v = PyStr(" key-B ") THEN PyStr("key-B") ELSE v

\* A __load_api that strips the key before storing it.
load_api_strip(hdrs, source) ==
    IF ~source.exists
    THEN [result |-> Raise("FileNotFoundError"), headers |-> hdrs]
    ELSE LET config == json_loads(source.text) IN
         IF ~config.ok
         THEN [result |-> Raise("JSONDecodeError"), headers |-> hdrs]
         ELSE IF ~HasKey(config.value, "api_key")
         THEN [result |-> Raise("KeyError"), headers |-> hdrs]
         ELSE [result |-> Return(PyNone),
               headers |-> [hdrs EXCEPT
                              !.apiKey = Strip(GetItem(config.value, "api_key"))]]

\* A __load_api that reads the field with config.get('api_key'): a config
\* without the field stores None and returns.
load_api_get(hdrs, source) ==
    IF ~source.exists
    THEN [result |-> Raise("FileNotFoundError"), headers |-> hdrs]
    ELSE LET config == json_loads(source.text) IN
         IF ~config.ok
         THEN [result |-> Raise("JSONDecodeError"), headers |-> hdrs]
         ELSE [result |-> Return(PyNone),
               headers |-> [hdrs EXCEPT
                              !.apiKey = IF HasKey(config.value, "api_key")
                                         THEN GetItem(config.value, "api_key")
                                         ELSE PyNone]]

\* __load_api: open the file, json.load it, store config['api_key'] in the
\* headers dict.  hdrs is the headers dict before the call; the result is
\* how the call ended and the headers dict after it.
load_api(hdrs, source) ==
    IF ~source.exists
    THEN [result |-> Raise("FileNotFoundError"), headers |-> hdrs]
    ELSE LET config == json_loads(source.text) IN
         IF ~config.ok
         THEN [result |-> Raise("JSONDecodeError"), headers |-> hdrs]
         ELSE IF ~HasKey(config.value, "api_key")
         THEN [result |-> Raise("KeyError"), headers |-> hdrs]
         ELSE [result |-> Return(PyNone),
               headers |-> [hdrs EXCEPT
                              !.apiKey = GetItem(config.value, "api_key")]]

\* ------------------------------------------------------------------------
\* The upstream service, as the class and check-out docstrings describe it
\* ------------------------------------------------------------------------

\* What the network does to one request: it never reaches the service,
\* something in between answers with a non-JSON page, or the service answers.
Nets == {"unreachable", "garbled", "answer"}

IsCheckPost(req) ==
    /\ req.method = "POST"
    /\ req.url \in {url_base \o "/registrant/check-in",
                    url_base \o "/registrant/check-out"}
    /\ HasKey(req.json, "id")
    /\ GetItem(req.json, "id").t = "int"

\* Check-out is an alias of check-in; checking in twice is a conflict.
UpstreamText(req) ==
    IF IsCheckPost(req)
    THEN IF GetItem(req.json, "id").i \in checkedIn
         THEN ConflictText
         ELSE CheckedInText
    ELSE ListText

Respond(req, net) ==
    [t |-> "Response",
     text |-> IF net = "garbled" THEN BadGatewayText ELSE UpstreamText(req)]

UpstreamNext(requests, net) ==
    IF net = "answer" /\ Len(requests) > 0 /\ IsCheckPost(requests[1])
    THEN checkedIn \cup {GetItem(requests[1].json, "id").i}
    ELSE checkedIn

\* ------------------------------------------------------------------------
\* Catch-all API call
\* ------------------------------------------------------------------------

\* A call that ends before it reaches requests.request.
NoRequest(c, result, warned) ==
    [requests |-> <<>>, response |-> PyNone, result |-> result,
     warned |-> warned, net |-> "none",
     last_request |-> last_request[c],
     last_request_json |-> last_request_json[c]]

\* An __api_request that tries a second time when the transport fails.
api_request_retry(c, method, url, payload, kwargs, net) ==
    LET req == [method |-> method, url |-> url, headers |-> headers,
                json |-> payload, params |-> kwargs]
    IN  IF net = "unreachable"
        THEN [requests |-> <<req, req>>, response |-> PyNone,
              result |-> Raise("RequestException"),
              warned |-> FALSE, net |-> net,
              last_request |-> last_request[c],
              last_request_json |-> last_request_json[c]]
        ELSE LET r == Respond(req, net)
                 parsed == json_loads(r.text)
             IN  IF parsed.ok
                 THEN [requests |-> <<req>>, response |-> r,
                       result |-> Return(r),
                       warned |-> FALSE, net |-> net,
                       last_request |-> r,
                       last_request_json |-> parsed.value]
                 ELSE [requests |-> <<req>>, response |-> r,
                       result |-> Raise("JSONDecodeError"),
                       warned |-> FALSE, net |-> net,
                       last_request |-> r,
                       last_request_json |-> last_request_json[c]]

\* An __api_request that catches the JSONDecodeError of json.loads and
\* returns the response all the same.
api_request_swallow(c, method, url, payload, kwargs, net) ==
    LET req == [method |-> method, url |-> url, headers |-> headers,
                json |-> payload, params |-> kwargs]
    IN  IF net = "unreachable"
        THEN [requests |-> <<req>>, response |-> PyNone,
              result |-> Raise("RequestException"),
              warned |-> FALSE, net |-> net,
              last_request |-> last_request[c],
              last_request_json |-> last_request_json[c]]
        ELSE LET r == Respond(req, net)
                 parsed == json_loads(r.text)
             IN  [requests |-> <<req>>, response |-> r,
                  result |-> Return(r),
                  warned |-> FALSE, net |-> net,
                  last_request |-> r,
                  last_request_json |-> IF parsed.ok THEN parsed.value
                                        ELSE last_request_json[c]]

\* __api_request: one requests.request with the class headers, then
\* last_request, then last_request_json = json.loads(r.text).
api_request(c, method, url, payload, kwargs, net) ==
    LET req == [method |-> method, url |-> url, headers |-> headers,
                json |-> payload, params |-> kwargs]
    IN  IF net = "unreachable"
        THEN [requests |-> <<req>>, response |-> PyNone,
              result |-> Raise("RequestException"),
              warned |-> FALSE, net |-> net,
              last_request |-> last_request[c],
              last_request_json |-> last_request_json[c]]
        ELSE LET r == Respond(req, net)
                 parsed == json_loads(r.text)
             IN  IF parsed.ok
                 THEN [requests |-> <<req>>, response |-> r,
                       result |-> Return(r),
                       warned |-> FALSE, net |-> net,
                       last_request |-> r,
                       last_request_json |-> parsed.value]
                 ELSE [requests |-> <<req>>, response |-> r,
                       result |-> Raise("JSONDecodeError"),
                       warned |-> FALSE, net |-> net,
                       last_request |-> r,
                       last_request_json |-> last_request_json[c]]

\* An api_get that reads self.last_request_json before the request is made.
api_get_stale(c, endpoint, kwargs, net) ==
    LET o == api_request(c, "GET", url_base \o endpoint, PyNone, kwargs, net)
    IN  IF o.result.kind = "raise"
        THEN o
        ELSE [o EXCEPT !.result = Return(last_request_json[c])]

\* api_get: GET url_base + endpoint, then return self.last_request_json.
api_get(c, endpoint, kwargs, net) ==
    LET o == api_request(c, "GET", url_base \o endpoint, PyNone, kwargs, net)
    IN  IF o.result.kind = "raise"
        THEN o
        ELSE [o EXCEPT !.result = Return(o.last_request_json)]

\* api_post: POST url_base + endpoint with the payload as JSON body.
api_post(c, endpoint, payload, kwargs, net) ==
    LET o == api_request(c, "POST", url_base \o endpoint, payload, kwargs, net)
    IN  IF o.result.kind = "raise"
        THEN o
        ELSE [o EXCEPT !.result = Return(o.last_request_json)]

\* ------------------------------------------------------------------------
\* Pre-defined API calls
\* ------------------------------------------------------------------------

ping(c, net) == api_get(c, endpoints.ping, NoKwargs, net)

search_orders(c, kwargs, net) == api_get(c, endpoints.search_orders, kwargs, net)

list_orders(c, form_id, net) == search_orders(c, Kw("form_id", form_id), net)

search_orders_id(c, order_id, net) ==
    api_get(c, endpoints.search_orders \o "/" \o Format(order_id), NoKwargs, net)

search_orders_number(c, order_number, net) ==
    search_orders(c, Kw("orderNumber", order_number), net)

search_registrants(c, kwargs, net) ==
    api_get(c, endpoints.search_registrants, kwargs, net)

list_registrants(c, form_id, net) ==
    search_registrants(c, Kw("form_id", form_id), net)

search_registrants_number(c, reg_number, net) ==
    api_get(c, endpoints.search_registrants \o "/" \o Format(reg_number),
            NoKwargs, net)

\* isinstance(reg_number, int) in place of the type test: bool is a subclass
\* of int.
is_int_isinstance(v) == v.t \in {"int", "bool"}

\* type(reg_number) is int
is_int(v) == v.t = "int"

\* A check-in that also forwards reg_id when the caller gives one.
registrant_checkin_reg_id(c, reg_number, reg_id, net) ==
    IF ~is_int(reg_number)
    THEN NoRequest(c, Raise("AssertionError"), FALSE)
    ELSE api_post(c, endpoints.registrant_checkin,
                  IF reg_id = PyNone
                  THEN Kw("id", reg_number)
                  ELSE PyDict({<<"id", reg_number>>, <<"reg_id", reg_id>>}),
                  NoKwargs, net)

registrant_checkin(c, reg_number, reg_id, net) ==
    IF ~is_int(reg_number)
    THEN NoRequest(c, Raise("AssertionError"), FALSE)
    ELSE api_post(c, endpoints.registrant_checkin, Kw("id", reg_number),
                  NoKwargs, net)

\* A check-out without the print to stderr.
registrant_checkout_silent(c, reg_number, reg_id, net) ==
    IF ~is_int(reg_number)
    THEN NoRequest(c, Raise("AssertionError"), FALSE)
    ELSE api_post(c, endpoints.registrant_checkout, Kw("id", reg_number),
                  NoKwargs, net)

registrant_checkout(c, reg_number, reg_id, net) ==
    IF ~is_int(reg_number)
    THEN NoRequest(c, Raise("AssertionError"), FALSE)
    ELSE [api_post(c, endpoints.registrant_checkout, Kw("id", reg_number),
                   NoKwargs, net)
            EXCEPT !.warned = TRUE]

search_transactions(c, kwargs, net) ==
    api_get(c, endpoints.search_transactions, kwargs, net)

list_transactions(c, form_id, net) ==
    search_transactions(c, Kw("formId", form_id), net)

search_transactions_order_id(c, order_id, net) ==
    search_transactions(c, Kw("orderId", order_id), net)

search_transactions_order_number(c, order_number, net) ==
    search_transactions(c, Kw("orderNumber", order_number), net)

search_transactions_customer_id(c, customer_id, net) ==
    search_transactions(c, Kw("customerId", customer_id), net)

search_customers(c, kwargs, net) ==
    api_get(c, endpoints.search_customers, kwargs, net)

list_customers(c, form_id, net) == search_customers(c, Kw("formId", form_id), net)

search_customers_id(c, customer_id, net) ==
    api_get(c, endpoints.search_customers \o "/" \o Format(customer_id),
            NoKwargs, net)

search_customers_email(c, email, net) ==
    search_customers(c, Kw("email", email), net)

list_forms(c, net) == api_get(c, endpoints.forms, NoKwargs, net)

search_forms_id(c, form_id, net) ==
    api_get(c, endpoints.forms \o "/" \o Format(form_id), NoKwargs, net)

list_global_coupons(c, kwargs, net) ==
    api_get(c, endpoints.list_global_coupons, kwargs, net)

list_form_coupons(c, form_id, net) ==
    api_get(c, endpoints.list_form_coupons \o "/" \o Format(form_id),
            NoKwargs, net)

search_coupons(c, coupon_id, net) ==
    api_get(c, endpoints.coupons \o "/" \o Format(coupon_id), NoKwargs, net)

search_inventory(c, form_id, net) ==
    api_get(c, endpoints.forms \o "/" \o Format(form_id) \o "/inventory",
            NoKwargs, net)

search_tickets(c, net) == api_get(c, "/search/tickets", NoKwargs, net)

search_subscriptions(c, net) == api_get(c, "/search/subscriptions", NoKwargs, net)

search_memberships(c, net) == api_get(c, "/search/memberships", NoKwargs, net)

\* ------------------------------------------------------------------------
\* Argument values the callers pass
\* ------------------------------------------------------------------------

IntIds == {PyInt(n) : n \in Ids}

\* reg_number as callers may pass it: an int, a numeric string, a bool, None.
RegNumbers == IntIds \cup {PyStr("1230469"), PyBool(TRUE), PyNone}

RegIds == {PyNone, PyStr("12345678E3126ZQABCD")}

\* Ids of entity lookups: ints, or a display string.
EntityIds == IntIds \cup {PyStr("EXAMPLEEVENT202J91234X")}

\* form_id of the list wrappers: the default None, or a form.
FormIds == {PyNone} \cup IntIds

OrderNumbers == {PyStr("X"), PyStr("EXAMPLEEVENT202J91234X")}

Emails == {PyStr("email@example.com")}

\* Free-form **kwargs of the search methods.
Filters == {NoKwargs, Kw("orderNumber", PyStr("X"))}

\* Endpoints a caller hands to the generic api_get / api_post.
FreeEndpoints == {"/search/tickets", endpoints.registrant_checkin}

Payloads == {Kw("id", v) : v \in IntIds}

Args1(k, v) == PyDict({<<k, v>>})

Args2(k1, v1, k2, v2) == PyDict({<<k1, v1>>, <<k2, v2>>})

\* ------------------------------------------------------------------------
\* State machine
\* ------------------------------------------------------------------------

NoCall ==
    [client |-> "", op |-> "", args |-> NoKwargs, requests |-> <<>>,
     response |-> PyNone, result |-> Return(PyNone), warned |-> FALSE,
     net |-> "none"]

\* The class as defined: headers = {'apiKey': ''}, last_request = None,
\* last_request_json = {}; no instance yet.
Init ==
    /\ headers = [apiKey |-> PyStr("")]
    /\ alive = [c \in Clients |-> FALSE]
    /\ loaded = [c \in Clients |-> PyNone]
    /\ last_request = [c \in Clients |-> PyNone]
    /\ last_request_json = [c \in Clients |-> PyDict({})]
    /\ checkedIn = {}
    /\ call = NoCall

\* c = RegFoxAPI(): __init__ runs __load_api on the configuration source.
\* When it returns, the name c is bound to a fresh instance (its attributes
\* are the class defaults); when it raises, c keeps what it was bound to.
NewClient(c) ==
    \E source \in Sources :
        LET o == load_api(headers, source)
            ok == o.result.kind = "return"
        IN
        /\ headers' = o.headers
        /\ alive' = [alive EXCEPT ![c] = IF ok THEN TRUE ELSE @]
        /\ loaded' = [loaded EXCEPT ![c] = IF ok THEN o.headers.apiKey ELSE @]
        /\ last_request' = [last_request EXCEPT ![c] = IF ok THEN PyNone ELSE @]
        /\ last_request_json' =
              [last_request_json EXCEPT ![c] = IF ok THEN PyDict({}) ELSE @]
        /\ call' = [client |-> c, op |-> "__init__",
                    args |-> [t |-> "source", exists |-> source.exists,
                              text |-> source.text],
                    requests |-> <<>>, response |-> PyNone,
                    result |-> o.result, warned |-> FALSE, net |-> "none"]
        /\ UNCHANGED checkedIn

\* A method call on instance c with outcome o.
Do(c, op, args, o) ==
    /\ alive[c]
    /\ last_request' = [last_request EXCEPT ![c] = o.last_request]
    /\ last_request_json' = [last_request_json EXCEPT ![c] = o.last_request_json]
    /\ checkedIn' = UpstreamNext(o.requests, o.net)
    /\ call' = [client |-> c, op |-> op, args |-> args,
                requests |-> o.requests, response |-> o.response,
                result |-> o.result, warned |-> o.warned, net |-> o.net]
    /\ UNCHANGED <<headers, alive, loaded>>

ApiGet(c) ==
    \E endpoint \in FreeEndpoints, kwargs \in Filters, net \in Nets :
        Do(c, "api_get", Args2("endpoint", PyStr(endpoint), "kwargs", kwargs),
           api_get(c, endpoint, kwargs, net))

ApiPost(c) ==
    \E endpoint \in FreeEndpoints, payload \in Payloads, net \in Nets :
        Do(c, "api_post", Args2("endpoint", PyStr(endpoint), "payload", payload),
           api_post(c, endpoint, payload, NoKwargs, net))

Ping(c) == \E net \in Nets : Do(c, "ping", NoKwargs, ping(c, net))

ListOrders(c) ==
    \E form_id \in FormIds, net \in Nets :
        Do(c, "list_orders", Args1("form_id", form_id), list_orders(c, form_id, net))

SearchOrders(c) ==
    \E kwargs \in Filters, net \in Nets :
        Do(c, "search_orders", kwargs, search_orders(c, kwargs, net))

SearchOrdersId(c) ==
    \E order_id \in EntityIds, net \in Nets :
        Do(c, "search_orders_id", Args1("order_id", order_id),
           search_orders_id(c, order_id, net))

SearchOrdersNumber(c) ==
    \E order_number \in OrderNumbers, net \in Nets :
        Do(c, "search_orders_number", Args1("order_number", order_number),
           search_orders_number(c, order_number, net))

ListRegistrants(c) ==
    \E form_id \in FormIds, net \in Nets :
        Do(c, "list_registrants", Args1("form_id", form_id),
           list_registrants(c, form_id, net))

SearchRegistrants(c) ==
    \E kwargs \in Filters, net \in Nets :
        Do(c, "search_registrants", kwargs, search_registrants(c, kwargs, net))

SearchRegistrantsNumber(c) ==
    \E reg_number \in EntityIds, net \in Nets :
        Do(c, "search_registrants_number", Args1("reg_number", reg_number),
           search_registrants_number(c, reg_number, net))

RegistrantCheckin(c) ==
    \E reg_number \in RegNumbers, reg_id \in RegIds, net \in Nets :
        Do(c, "registrant_checkin",
           Args2("reg_number", reg_number, "reg_id", reg_id),
           registrant_checkin(c, reg_number, reg_id, net))

RegistrantCheckout(c) ==
    \E reg_number \in RegNumbers, reg_id \in RegIds, net \in Nets :
        Do(c, "registrant_checkout",
           Args2("reg_number", reg_number, "reg_id", reg_id),
           registrant_checkout(c, reg_number, reg_id, net))

ListTransactions(c) ==
    \E form_id \in FormIds, net \in Nets :
        Do(c, "list_transactions", Args1("form_id", form_id),
           list_transactions(c, form_id, net))

SearchTransactions(c) ==
    \E kwargs \in Filters, net \in Nets :
        Do(c, "search_transactions", kwargs, search_transactions(c, kwargs, net))

SearchTransactionsOrderId(c) ==
    \E order_id \in IntIds, net \in Nets :
        Do(c, "search_transactions_order_id", Args1("order_id", order_id),
           search_transactions_order_id(c, order_id, net))

SearchTransactionsOrderNumber(c) ==
    \E order_number \in OrderNumbers, net \in Nets :
        Do(c, "search_transactions_order_number",
           Args1("order_number", order_number),
           search_transactions_order_number(c, order_number, net))

SearchTransactionsCustomerId(c) ==
    \E customer_id \in IntIds, net \in Nets :
        Do(c, "search_transactions_customer_id",
           Args1("customer_id", customer_id),
           search_transactions_customer_id(c, customer_id, net))

ListCustomers(c) ==
    \E form_id \in FormIds, net \in Nets :
        Do(c, "list_customers", Args1("form_id", form_id),
           list_customers(c, form_id, net))

SearchCustomers(c) ==
    \E kwargs \in Filters, net \in Nets :
        Do(c, "search_customers", kwargs, search_customers(c, kwargs, net))

SearchCustomersId(c) ==
    \E customer_id \in EntityIds, net \in Nets :
        Do(c, "search_customers_id", Args1("customer_id", customer_id),
           search_customers_id(c, customer_id, net))

SearchCustomersEmail(c) ==
    \E email \in Emails, net \in Nets :
        Do(c, "search_customers_email", Args1("email", email),
           search_customers_email(c, email, net))

ListForms(c) == \E net \in Nets : Do(c, "list_forms", NoKwargs, list_forms(c, net))

SearchFormsId(c) ==
    \E form_id \in EntityIds, net \in Nets :
        Do(c, "search_forms_id", Args1("form_id", form_id),
           search_forms_id(c, form_id, net))

ListGlobalCoupons(c) ==
    \E kwargs \in Filters, net \in Nets :
        Do(c, "list_global_coupons", kwargs, list_global_coupons(c, kwargs, net))

ListFormCoupons(c) ==
    \E form_id \in EntityIds, net \in Nets :
        Do(c, "list_form_coupons", Args1("form_id", form_id),
           list_form_coupons(c, form_id, net))

SearchCoupons(c) ==
    \E coupon_id \in EntityIds, net \in Nets :
        Do(c, "search_coupons", Args1("coupon_id", coupon_id),
           search_coupons(c, coupon_id, net))

SearchInventory(c) ==
    \E form_id \in EntityIds, net \in Nets :
        Do(c, "search_inventory", Args1("form_id", form_id),
           search_inventory(c, form_id, net))

SearchTickets(c) ==
    \E net \in Nets : Do(c, "search_tickets", NoKwargs, search_tickets(c, net))

SearchSubscriptions(c) ==
    \E net \in Nets :
        Do(c, "search_subscriptions", NoKwargs, search_subscriptions(c, net))

SearchMemberships(c) ==
    \E net \in Nets :
        Do(c, "search_memberships", NoKwargs, search_memberships(c, net))

\* The module as it runs: every method, on its one instance.
Next ==
    \E c \in ModuleInstance :
        \/ NewClient(c)
        \/ ApiGet(c)
        \/ ApiPost(c)
        \/ Ping(c)
        \/ ListOrders(c)
        \/ SearchOrders(c)
        \/ SearchOrdersId(c)
        \/ SearchOrdersNumber(c)
        \/ ListRegistrants(c)
        \/ SearchRegistrants(c)
        \/ SearchRegistrantsNumber(c)
        \/ RegistrantCheckin(c)
        \/ RegistrantCheckout(c)
        \/ ListTransactions(c)
        \/ SearchTransactions(c)
        \/ SearchTransactionsOrderId(c)
        \/ SearchTransactionsOrderNumber(c)
        \/ SearchTransactionsCustomerId(c)
        \/ ListCustomers(c)
        \/ SearchCustomers(c)
        \/ SearchCustomersId(c)
        \/ SearchCustomersEmail(c)
        \/ ListForms(c)
        \/ SearchFormsId(c)
        \/ ListGlobalCoupons(c)
        \/ ListFormCoupons(c)
        \/ SearchCoupons(c)
        \/ SearchInventory(c)
        \/ SearchTickets(c)
        \/ SearchSubscriptions(c)
        \/ SearchMemberships(c)

Spec == Init /\ [][Next]_vars

\* A program that constructs two instances and uses both: the constructor,
\* the generic GET and POST, and one convenience method of each shape.
NextTwo ==
    \E c \in Clients :
        \/ NewClient(c)
        \/ ApiGet(c)
        \/ ApiPost(c)
        \/ Ping(c)
        \/ SearchOrders(c)
        \/ RegistrantCheckin(c)

SpecTwo == Init /\ [][NextTwo]_vars

\* ------------------------------------------------------------------------
\* Properties
\* ------------------------------------------------------------------------

\* The methods built on api_get / api_post.
ConvenienceOps ==
    {"ping", "list_orders", "search_orders", "search_orders_id",
     "search_orders_number", "list_registrants", "search_registrants",
     "search_registrants_number", "registrant_checkin", "registrant_checkout",
     "list_transactions", "search_transactions", "search_transactions_order_id",
     "search_transactions_order_number", "search_transactions_customer_id",
     "list_customers", "search_customers", "search_customers_id",
     "search_customers_email", "list_forms", "search_forms_id",
     "list_global_coupons", "list_form_coupons", "search_coupons",
     "search_inventory", "search_tickets", "search_subscriptions",
     "search_memberships"}

BaseUrl == "https://api.webconnex.com/v2/public"

Arg(state, k) == GetItem(state.args, k)

IsCheckinCall(state) == state.op = "registrant_checkin"

C2_CheckinRequest ==
    (IsCheckinCall(call) /\ Arg(call, "reg_number").t = "int")
        => /\ Len(call.requests) = 1
           /\ call.requests[1].method = "POST"
           /\ call.requests[1].url = BaseUrl \o "/registrant/check-in"
           /\ call.requests[1].json = PyDict({<<"id", Arg(call, "reg_number")>>})
           /\ call.requests[1].params = PyDict({})

C2_Witness ==
    /\ IsCheckinCall(call)
    /\ Arg(call, "reg_number") = PyInt(MaxId)
    /\ Arg(call, "reg_id") # PyNone
    /\ Len(call.requests) = 1
    /\ call.result.kind = "return"

\* The conflict object of the check-out docstring, as a parsed value.
ConflictObject ==
    PyDict({<<"responseCode", PyInt(500)>>,
            <<"error", PyDict({<<"code", PyInt(8500)>>,
                               <<"description", PyStr("all ready checked in")>>})>>})

\* C3: registrant_checkout of an id the upstream has checked in, when the
\* upstream answers: the call returns the parsed response body, which is the
\* conflict object, and the warning was emitted during the call.
C3_CheckoutConflict ==
    [][(/\ call'.op = "registrant_checkout"
        /\ Arg(call', "reg_number").t = "int"
        /\ Arg(call', "reg_number").i \in checkedIn
        /\ call'.net = "answer")
        => /\ call'.result.kind = "return"
           /\ call'.result.value = json_loads(call'.response.text).value
           /\ call'.result.value = ConflictObject
           /\ call'.warned]_vars

C3_Witness ==
    /\ call.op = "registrant_checkout"
    /\ call.net = "answer"
    /\ call.response.text = ConflictText
    /\ call.result = Return(ConflictObject)
    /\ call.warned

\* The documented endpoint catalog: the fixed suffixes, the lookups that
\* append /{id}, and /forms/{id}/inventory.
CatalogFixed ==
    {"/ping", "/search/orders", "/search/registrants", "/registrant/check-in",
     "/registrant/check-out", "/search/transactions", "/search/customers",
     "/coupons/global", "/forms"}

CatalogLookup ==
    {"/search/orders", "/search/registrants", "/search/customers", "/forms",
     "/coupons/forms", "/coupons"}

CatalogPaths ==
    CatalogFixed
      \cup {p \o "/" \o Format(id) : p \in CatalogLookup, id \in EntityIds}
      \cup {"/forms/" \o Format(id) \o "/inventory" : id \in EntityIds}

\* The path each convenience method is documented to use.
ExpectedPath(state) ==
    CASE state.op = "ping" -> "/ping"
      [] state.op \in {"list_orders", "search_orders", "search_orders_number"}
           -> "/search/orders"
      [] state.op = "search_orders_id"
           -> "/search/orders/" \o Format(Arg(state, "order_id"))
      [] state.op \in {"list_registrants", "search_registrants"}
           -> "/search/registrants"
      [] state.op = "search_registrants_number"
           -> "/search/registrants/" \o Format(Arg(state, "reg_number"))
      [] state.op = "registrant_checkin" -> "/registrant/check-in"
      [] state.op = "registrant_checkout" -> "/registrant/check-out"
      [] state.op \in {"list_transactions", "search_transactions",
                       "search_transactions_order_id",
                       "search_transactions_order_number",
                       "search_transactions_customer_id"}
           -> "/search/transactions"
      [] state.op \in {"list_customers", "search_customers",
                       "search_customers_email"}
           -> "/search/customers"
      [] state.op = "search_customers_id"
           -> "/search/customers/" \o Format(Arg(state, "customer_id"))
      [] state.op = "list_forms" -> "/forms"
      [] state.op = "search_forms_id"
           -> "/forms/" \o Format(Arg(state, "form_id"))
      [] state.op = "list_global_coupons" -> "/coupons/global"
      [] state.op = "list_form_coupons"
           -> "/coupons/forms/" \o Format(Arg(state, "form_id"))
      [] state.op = "search_coupons"
           -> "/coupons/" \o Format(Arg(state, "coupon_id"))
      [] state.op = "search_inventory"
           -> "/forms/" \o Format(Arg(state, "form_id")) \o "/inventory"
      [] state.op = "search_tickets" -> "/search/tickets"
      [] state.op = "search_subscriptions" -> "/search/subscriptions"
      [] state.op = "search_memberships" -> "/search/memberships"

InactiveOps == {"search_tickets", "search_subscriptions", "search_memberships"}

\* C4 as stated: every request of every convenience method goes to base_url
\* followed by a path of the endpoint catalog.
C4_Original ==
    call.op \in ConvenienceOps
        => \A i \in 1..Len(call.requests) :
              call.requests[i].url \in {BaseUrl \o p : p \in CatalogPaths}

\* C4, amended: every request of a convenience method goes to base_url
\* followed by that method's path; the path is one of the catalog for every
\* method but search_tickets, search_subscriptions and search_memberships,
\* whose paths /search/tickets, /search/subscriptions and
\* /search/memberships are outside the catalog.
C4_CatalogPaths ==
    call.op \in ConvenienceOps
        => \A i \in 1..Len(call.requests) :
              /\ call.requests[i].url = BaseUrl \o ExpectedPath(call)
              /\ call.op \notin InactiveOps => ExpectedPath(call) \in CatalogPaths
              /\ call.op \in InactiveOps => ExpectedPath(call) \notin CatalogPaths

C4_Witness ==
    /\ call.op = "list_form_coupons"
    /\ Len(call.requests) = 1
    /\ call.requests[1].url = BaseUrl \o "/coupons/forms/" \o ToString(MaxId)

ParsedBody(state) == json_loads(state.response.text).value

\* C5: ping() issues one GET to /ping with no query parameters and no JSON
\* body; search_orders(orderNumber=X) issues one GET to /search/orders with
\* query parameters exactly {orderNumber: X}; what either returns is the
\* parsed body of the response to that request.
C5_PingAndSearchOrders ==
    /\ call.op = "ping"
         => /\ Len(call.requests) = 1
            /\ call.requests[1].method = "GET"
            /\ call.requests[1].url = BaseUrl \o "/ping"
            /\ call.requests[1].params = PyDict({})
            /\ call.requests[1].json = PyNone
    /\ (call.op = "search_orders" /\ DictKeys(call.args) = {"orderNumber"})
         => /\ Len(call.requests) = 1
            /\ call.requests[1].method = "GET"
            /\ call.requests[1].url = BaseUrl \o "/search/orders"
            /\ call.requests[1].params =
                  PyDict({<<"orderNumber", Arg(call, "orderNumber")>>})
    /\ (call.op \in {"ping", "search_orders"} /\ call.result.kind = "return")
         => /\ json_loads(call.response.text).ok
            /\ call.result.value = ParsedBody(call)

C5_Witness ==
    /\ call.op = "search_orders"
    /\ DictKeys(call.args) = {"orderNumber"}
    /\ call.result.kind = "return"
    /\ call.result.value = ParsedBody(call)
    /\ call.response.text = ListText

\* C6 as stated: every request an instance issues carries, as its apiKey
\* header, the key that instance loaded when it was constructed.
C6_RequestsCarryOwnKey ==
    \A i \in 1..Len(call.requests) :
        call.requests[i].headers.apiKey = loaded[call.client]

\* C7 as stated: once two instances have been constructed from sources with
\* different keys, a request of either still carries the key of the instance
\* that issues it.
C7_InstancesKeepTheirKeys ==
    (/\ \A c \in Clients : alive[c]
     /\ loaded["regfox"] # loaded["other"]
     /\ call.op # "__init__")
        => \A i \in 1..Len(call.requests) :
              /\ call.client = "regfox"
                   => call.requests[i].headers.apiKey = loaded["regfox"]
              /\ call.client = "other"
                   => call.requests[i].headers.apiKey = loaded["other"]

IsInitCall(state) == state.op = "__init__"

\* The api_key field of a configuration source that has one.
SourceKey(source) ==
    CASE source.text = "{\"api_key\": \"key-A\"}" -> PyStr("key-A")
      [] source.text = "{\"api_key\": \" key-B \"}" -> PyStr(" key-B ")

ValidSource(source) ==
    /\ source.exists
    /\ source.text \in {"{\"api_key\": \"key-A\"}", "{\"api_key\": \" key-B \"}"}

\* C8: constructing an instance from a valid configuration source succeeds,
\* and the key stored for the apiKey header is the source's api_key field,
\* character for character.
C8_StoredKeyIsSourceKey ==
    (IsInitCall(call) /\ ValidSource(call.args))
        => /\ call.result.kind = "return"
           /\ alive[call.client]
           /\ headers.apiKey = SourceKey(call.args)
           /\ loaded[call.client] = SourceKey(call.args)

C8_Witness ==
    /\ IsInitCall(call)
    /\ call.args.exists
    /\ call.args.text = ConfigTextB
    /\ headers.apiKey = PyStr(" key-B ")

\* The spec's ConfigError: what __load_api raises on a bad source.
ConfigError == {"FileNotFoundError", "JSONDecodeError", "KeyError"}

\* C9: constructing an instance from a missing source, a malformed one or
\* one without the api_key field fails with a ConfigError; no instance is
\* produced and the stored key is left as it was.
C9_BadSourceFails ==
    [][(IsInitCall(call') /\ ~ValidSource(call'.args))
        => /\ call'.result.kind = "raise"
           /\ call'.result.error \in ConfigError
           /\ ~call'.args.exists => call'.result.error = "FileNotFoundError"
           /\ headers' = headers
           /\ alive' = alive
           /\ loaded' = loaded
           /\ last_request' = last_request
           /\ last_request_json' = last_request_json]_vars

C9_Witness ==
    /\ IsInitCall(call)
    /\ ~call.args.exists
    /\ call.result = Raise("FileNotFoundError")
    /\ headers.apiKey = PyStr("key-A")

\* The spec's RequestError: what requests.request raises when the transport
\* fails.
RequestError == {"RequestException"}

\* C10: every call issues at most one request; when the transport fails the
\* call ends with a RequestError after that one attempt, and last_request and
\* last_request_json keep the values they had.
C10_OneAttemptNoRecovery ==
    [][/\ Len(call'.requests) <= 1
       /\ call'.net = "unreachable"
            => /\ Len(call'.requests) = 1
               /\ call'.result.kind = "raise"
               /\ call'.result.error \in RequestError
               /\ last_request' = last_request
               /\ last_request_json' = last_request_json]_vars

C10_Witness ==
    /\ call.op \in ConvenienceOps \cup {"api_get", "api_post"}
    /\ call.net = "unreachable"
    /\ Len(call.requests) = 1
    /\ call.result = Raise("RequestException")
    /\ last_request[call.client] # PyNone

\* The spec's ResponseParseError: what json.loads raises on a body that is
\* not JSON.
ResponseParseError == {"JSONDecodeError"}

GotResponse(state) == state.response # PyNone

\* C11: a call whose response body is not valid JSON ends with a
\* ResponseParseError and hands no value to the caller, whether it came
\* through the generic GET/POST or a convenience method; the parsed body of
\* an earlier call is never returned in its place.
C11_BadBodyRaises ==
    (GotResponse(call) /\ ~json_loads(call.response.text).ok)
        => /\ call.result.kind = "raise"
           /\ call.result.error \in ResponseParseError
           /\ call.result.value = PyNone

C11_Witness ==
    /\ call.op \in ConvenienceOps
    /\ GotResponse(call)
    /\ call.response.text = BadGatewayText
    /\ call.result = Raise("JSONDecodeError")
    /\ last_request_json[call.client] # PyDict({})

\* C12 as stated: in every reachable state the two last-response fields of
\* an instance describe the same call: both hold their initial values, or
\* last_request_json is the parsed body of the response in last_request.
C12_LastFieldsAgree ==
    \A c \in Clients :
        \/ /\ last_request[c] = PyNone
           /\ last_request_json[c] = PyDict({})
        \/ /\ last_request[c] # PyNone
           /\ json_loads(last_request[c].text).ok
           /\ last_request_json[c] = json_loads(last_request[c].text).value

\* The search path of each list wrapper's family.
ListWrapperPath(op) ==
    CASE op = "list_orders" -> "/search/orders"
      [] op = "list_registrants" -> "/search/registrants"
      [] op = "list_transactions" -> "/search/transactions"
      [] op = "list_customers" -> "/search/customers"

ListWrappers ==
    {"list_orders", "list_registrants", "list_transactions", "list_customers"}

\* C13 as stated: list_orders, list_registrants, list_transactions and
\* list_customers, called with a form F, each issue one GET to their
\* family's search path whose query parameters are the form filter under the
\* upstream key formId, with value F, and nothing else.
C13_ListWrappersUseFormId ==
    (call.op \in ListWrappers /\ Arg(call, "form_id").t = "int")
        => /\ Len(call.requests) = 1
           /\ call.requests[1].method = "GET"
           /\ call.requests[1].url = BaseUrl \o ListWrapperPath(call.op)
           /\ call.requests[1].params =
                 PyDict({<<"formId", Arg(call, "form_id")>>})

====
